---------------------------- MODULE Spec2Model ----------------------------
(***************************************************************************)
(* RangeService of angular-onselect (src/src/range.service.js).            *)
(*                                                                         *)
(* The document is one parent element whose children are text nodes and    *)
(* inline elements.  A Selection wraps the host's live range; snapToWord   *)
(* moves the range's offsets, highlight surrounds the range with a new     *)
(* element, removeHighlight unwraps it.  The host's DOM operations         *)
(* (surroundContents, insertBefore, removeChild, the live range's          *)
(* boundary adjustment, Range.toString) are modelled as the DOM standard   *)
(* defines them.  Offsets are 0-based as in the DOM; strings are           *)
(* sequences of one-character strings.                                     *)
(***************************************************************************)
EXTENDS Integers, Sequences, FiniteSets, TLC

\* ------------------------------------------------------------- bounds
\* longest text of a generated text node
MaxLen == 3
\* number of calls made on the service and its Selection in one run
MaxOps == 3

\* ------------------------------------------------------------- values
\* `undefined`: the value of _highlighter when nothing is highlighted
None == 0
\* identity of the parent element that holds the text
PId == 1
\* `undefined` as the `length` of a node that is not character data
Undefined == -1

Chars == {" ", "a", "b"}
Space == " "
Tags == {"span", "mark"}
Decorators == {"yellow", "plain"}

\* a text node
Text(id, data) ==
  [kind |-> "text", id |-> id, data |-> data, tag |-> "", style |-> "",
   made |-> FALSE, kids |-> <<>>]
\* an element; made = TRUE for an element document.createElement returned
Elem(id, tag, style, made, kids) ==
  [kind |-> "elem", id |-> id, data |-> <<>>, tag |-> tag, style |-> style,
   made |-> made, kids |-> kids]

\* the state a call works on: the parent's children, the live range, the
\* Selection's _highlighter, the next fresh node identity, whether the call
\* has thrown, and the log of the host calls it made
St(doc, range, hl, detached, nextId) ==
  [doc |-> doc, range |-> range, hl |-> hl, detached |-> detached,
   nextId |-> nextId, threw |-> FALSE, log |-> <<>>]

Ev(ev, id, arg) == [ev |-> ev, id |-> id, arg |-> arg]

\* ------------------------------------------------------------- DOM helpers
RECURSIVE TextContent(_), TextOfSeq(_)
\* Node.textContent
TextContent(n) ==
  IF n.kind = "text" THEN n.data ELSE TextOfSeq(n.kids)
TextOfSeq(s) ==
  IF s = <<>> THEN <<>> ELSE TextContent(Head(s)) \o TextOfSeq(Tail(s))

\* position (1-based) of the child with identity id among the parent's children
Pos(doc, id) == CHOOSE i \in 1..Len(doc) : doc[i].id = id
IsChild(doc, id) == \E i \in 1..Len(doc) : doc[i].id = id

\* String.prototype.charAt: the empty string outside the string
CharAt(str, i) == IF i >= 0 /\ i < Len(str) THEN str[i + 1] ELSE ""

\* node.textContent of a range container
ContainerText(doc, c) ==
  IF c = PId THEN TextOfSeq(doc) ELSE doc[Pos(doc, c)].data
\* node.length of a range container: defined on character data only
ContainerLength(doc, c) ==
  IF c = PId THEN Undefined ELSE Len(doc[Pos(doc, c)].data)
\* a < b in JavaScript, where b may be undefined (NaN compares false)
LessThan(a, b) == IF b = Undefined THEN FALSE ELSE a < b

Slice(s, from, to) == SubSeq(s, from + 1, to)

\* Range.toString(): the text of the range in tree order
RangeText(doc, r) ==
  IF r.sc = PId
  THEN TextOfSeq(Slice(doc, r.so, r.eo))
  ELSE IF r.sc = r.ec
  THEN Slice(doc[Pos(doc, r.sc)].data, r.so, r.eo)
  ELSE LET i == Pos(doc, r.sc)
           j == Pos(doc, r.ec)
       IN Slice(doc[i].data, r.so, Len(doc[i].data))
            \o TextOfSeq(SubSeq(doc, i + 1, j - 1))
            \o Slice(doc[j].data, 0, r.eo)


\* position of a boundary point in tree order: (parent, o) lies before the
\* child of index o, and (child of index k, o) lies inside that child
BpKey(doc, c, o) ==
  IF c = PId THEN <<2 * o, 0>> ELSE <<2 * (Pos(doc, c) - 1) + 1, o>>
BpAfter(doc, c1, o1, c2, o2) ==
  LET a == BpKey(doc, c1, o1)
      b == BpKey(doc, c2, o2)
  IN a[1] > b[1] \/ (a[1] = b[1] /\ a[2] > b[2])

\* Range.setStart(node, offset): the end follows a start set after it
SetStart(doc, r, node, offset) ==
  IF BpAfter(doc, node, offset, r.ec, r.eo)
  THEN [sc |-> node, so |-> offset, ec |-> node, eo |-> offset]
  ELSE [r EXCEPT !.sc = node, !.so = offset]
\* Range.setEnd(node, offset): the start follows an end set before it
SetEnd(doc, r, node, offset) ==
  IF BpAfter(doc, r.sc, r.so, node, offset)
  THEN [sc |-> node, so |-> offset, ec |-> node, eo |-> offset]
  ELSE [r EXCEPT !.ec = node, !.eo = offset]

\* the live range after a child was inserted into the parent at index idx
AfterInsert(r, idx) ==
  [r EXCEPT !.so = IF r.sc = PId /\ r.so > idx THEN r.so + 1 ELSE r.so,
            !.eo = IF r.ec = PId /\ r.eo > idx THEN r.eo + 1 ELSE r.eo]
\* the live range after the parent's child of index idx was removed
AfterRemove(r, idx) ==
  [r EXCEPT !.so = IF r.sc = PId /\ r.so > idx THEN r.so - 1 ELSE r.so,
            !.eo = IF r.ec = PId /\ r.eo > idx THEN r.eo - 1 ELSE r.eo]

\* parent.insertBefore(wrapper.firstChild, wrapper)
InsertBefore(st, w) ==
  LET k == Pos(st.doc, w)
      child == Head(st.doc[k].kids)
  IN [st EXCEPT
        !.doc = SubSeq(st.doc, 1, k - 1)
                  \o <<child, [st.doc[k] EXCEPT !.kids = Tail(@)]>>
                  \o SubSeq(st.doc, k + 1, Len(st.doc)),
        !.range = AfterInsert(st.range, k - 1),
        !.log = Append(st.log, Ev("insertBefore", child.id, ""))]

\* parent.removeChild(wrapper)
RemoveChild(st, w) ==
  LET k == Pos(st.doc, w)
  IN [st EXCEPT
        !.doc = SubSeq(st.doc, 1, k - 1) \o SubSeq(st.doc, k + 1, Len(st.doc)),
        !.range = AfterRemove(st.range, k - 1),
        !.log = Append(st.log, Ev("removeChild", w, ""))]

\* document.createElement(tag), assigned to _highlighter
CreateElement(st, tag) ==
  [st EXCEPT !.hl = st.nextId,
             !.detached = <<Elem(st.nextId, tag, "", TRUE, <<>>)>>,
             !.nextId = st.nextId + 1,
             !.log = Append(st.log, Ev("createElement", st.nextId, tag))]

\* decorator(_highlighter): the callback styles the element, or throws
Decorate(st, dec) ==
  LET logged == [st EXCEPT !.log = Append(st.log, Ev("decorator", st.hl, dec))]
  IN IF dec = "throw"
     THEN [logged EXCEPT !.threw = TRUE]
     ELSE [logged EXCEPT
             !.detached = <<[st.detached[1] EXCEPT
                              !.style = IF dec = "yellow"
                                        THEN "background:yellow" ELSE ""]>>]

\* range.surroundContents(_highlighter): extract the range's contents, insert
\* the element at the range's start, append the contents to it, select it
SurroundContents(st) ==
  LET doc == st.doc
      r == st.range
      el == st.detached[1]
      n == st.nextId
      i == Pos(doc, r.sc)
      j == Pos(doc, r.ec)
      placed(before, kids, after, at, used) ==
        [st EXCEPT
           !.doc = before \o <<[el EXCEPT !.kids = kids]>> \o after,
           !.range = [sc |-> PId, so |-> at, ec |-> PId, eo |-> at + 1],
           !.detached = <<>>,
           !.nextId = n + used,
           !.log = Append(st.log, Ev("surroundContents", el.id, ""))]
  IN IF r.sc = PId
     THEN placed(Slice(doc, 0, r.so), Slice(doc, r.so, r.eo),
                 Slice(doc, r.eo, Len(doc)), r.so, 0)
     ELSE IF r.sc = r.ec
     THEN LET data == doc[i].data
          IN placed(SubSeq(doc, 1, i - 1)
                      \o <<[doc[i] EXCEPT !.data = Slice(data, 0, r.so)]>>,
                    IF r.so = r.eo THEN <<>>
                    ELSE <<Text(n, Slice(data, r.so, r.eo))>>,
                    <<Text(n + 1, Slice(data, r.eo, Len(data)))>>
                      \o SubSeq(doc, i + 1, Len(doc)),
                    i, 2)
     ELSE placed(SubSeq(doc, 1, i - 1)
                   \o <<[doc[i] EXCEPT !.data = Slice(@, 0, r.so)]>>,
                 <<Text(n, Slice(doc[i].data, r.so, Len(doc[i].data)))>>
                   \o SubSeq(doc, i + 1, j - 1)
                   \o <<Text(n + 1, Slice(doc[j].data, 0, r.eo))>>,
                 <<[doc[j] EXCEPT !.data = Slice(@, r.eo, Len(@))]>>
                   \o SubSeq(doc, j + 1, Len(doc)),
                 i, 2)

\* ------------------------------------------------------------- Selection
\* isHighlighted(): !!selection._highlighter
isHighlighted(hl) == hl # None

\* getText(): range.toString()
getText(doc, r) == RangeText(doc, r)

RECURSIVE WalkBack(_, _)
\* while (textContent.charAt(start) != ' ' && start > 0) start--
WalkBack(text, start) ==
  IF CharAt(text, start) # Space /\ start > 0
  THEN WalkBack(text, start - 1) ELSE start

\* faulty variant of SnapStart: stays on the space the walk stopped at
SnapStartOnSpace(text, startOffset) == WalkBack(text, startOffset)

\* the start offset snapToWord computes
SnapStart(text, startOffset) ==
  LET start == WalkBack(text, startOffset)
  IN IF start # 0 /\ start # startOffset THEN start + 1 ELSE start

RECURSIVE SnapEnd(_, _, _)
\* while (textContent.charAt(end) != ' ' && end < endNode.length) end++
SnapEnd(text, end, length) ==
  IF CharAt(text, end) # Space /\ LessThan(end, length)
  THEN SnapEnd(text, end + 1, length) ELSE end

\* snapToWord()
snapToWord(st) ==
  LET r == st.range
      start == SnapStart(ContainerText(st.doc, r.sc), r.so)
      end == SnapEnd(ContainerText(st.doc, r.ec), r.eo,
                     ContainerLength(st.doc, r.ec))
      r1 == SetStart(st.doc, r, r.sc, start)
      r2 == SetEnd(st.doc, r1, r.ec, end)
  IN [st EXCEPT !.range = r2,
                !.log = st.log \o <<Ev("setStart", r.sc, ""), Ev("setEnd", r.ec, "")>>]

\* faulty variant of MoveChildren: the wrapper keeps its children
MoveChildrenNone(st, w) == st

RECURSIVE MoveChildren(_, _)
\* while (_highlighter.firstChild) parent.insertBefore(firstChild, _highlighter)
MoveChildren(st, w) ==
  IF st.doc[Pos(st.doc, w)].kids # <<>>
  THEN MoveChildren(InsertBefore(st, w), w) ELSE st

\* faulty variant of removeHighlight: _highlighter is not cleared
removeHighlightKeepsRef(st) ==
  IF st.hl # None /\ IsChild(st.doc, st.hl)
  THEN RemoveChild(MoveChildren(st, st.hl), st.hl)
  ELSE st

\* removeHighlight(); the parentNode of an element that is not in the
\* document is null, and the calls on it throw a TypeError
removeHighlight(st) ==
  IF st.hl # None
  THEN IF IsChild(st.doc, st.hl)
       THEN [RemoveChild(MoveChildren(st, st.hl), st.hl) EXCEPT !.hl = None]
       ELSE [st EXCEPT !.threw = TRUE]
  ELSE st

\* faulty variant of SameContainer: the containers are not compared
SameContainerAny(r) == TRUE

\* range.startContainer === range.endContainer
SameContainer(r) == r.sc = r.ec

\* faulty variant of Wrap: the decorator is never called
WrapUndecorated(st, tag, dec) == SurroundContents(CreateElement(st, tag))

\* the body of highlight's if: create, decorate, surround
Wrap(st, tag, dec) ==
  LET decorated == Decorate(CreateElement(st, tag), dec)
  IN IF decorated.threw THEN decorated ELSE SurroundContents(decorated)

\* faulty variant of highlight: an existing wrapper is not removed first
highlightNoRemove(st, tag, dec) ==
  IF SameContainer(st.range) THEN Wrap(st, tag, dec) ELSE st

\* highlight(tag, decorator)
highlight(st, tag, dec) ==
  LET cleared == IF st.hl # None THEN removeHighlight(st) ELSE st
  IN IF cleared.threw THEN cleared
     ELSE IF SameContainer(cleared.range) THEN Wrap(cleared, tag, dec)
     ELSE cleared

\* windowSelection.getRangeAt(0): throws when the selection holds no range
GetRangeAt(st, hasRange) ==
  IF hasRange THEN st
  ELSE [st EXCEPT !.threw = TRUE, !.log = Append(st.log, Ev("getRangeAt", None, ""))]

\* Selection(range): _highlighter starts undefined
Selection(st) == [st EXCEPT !.hl = None]

\* faulty variant of process: the failure of getRangeAt is swallowed
processIgnoringError(st, options, hasRange) ==
  LET selection == Selection(GetRangeAt(st, hasRange))
      snapped == IF options.snapToWord THEN snapToWord(selection) ELSE selection
  IN IF options.highlight THEN highlight(snapped, "span", "yellow") ELSE snapped

\* faulty variant of process: highlights before it snaps
processHighlightsFirst(st, options, hasRange) ==
  LET got == GetRangeAt(st, hasRange)
      selection == Selection(got)
      wrapped == IF options.highlight
                 THEN highlight(selection, "span", "yellow") ELSE selection
  IN IF got.threw THEN got
     ELSE IF options.snapToWord THEN snapToWord(wrapped)
     ELSE wrapped

\* process(options): take the host's first range, make the Selection, then
\* snap and highlight as the options say
process(st, options, hasRange) ==
  LET got == GetRangeAt(st, hasRange)
      selection == Selection(got)
      snapped == IF options.snapToWord THEN snapToWord(selection) ELSE selection
  IN IF got.threw THEN got
     ELSE IF options.highlight THEN highlight(snapped, "span", "yellow")
     ELSE snapped

\* ------------------------------------------------------------- state
VARIABLES
  doc,          \* the children of the parent element, in order
  range,        \* the host's live range: start and end container and offset
  hostHasRange, \* whether $window.getSelection() holds a range
  sel,          \* whether a Selection has been constructed
  hl,           \* selection._highlighter: None or the wrapper's identity
  detached,     \* the element _highlighter refers to while outside the document
  nextId,       \* identity of the next node the host creates
  outcome,      \* how the last call ended: "returned" or "threw"
  log,          \* the host calls the last call made, in order
  op1,          \* the last call
  op2,          \* the call before it
  pre,          \* the document, range, _highlighter and getText() before op1
  text2,        \* getText() before op2
  lastHL,       \* the last call among highlight and removeHighlight
  first,        \* the document and the range the run started with
  ops           \* number of calls made

vars == <<doc, range, hostHasRange, sel, hl, detached, nextId, outcome, log,
          op1, op2, pre, text2, lastHL, first, ops>>

Op(name, tag, dec, snap, hi) ==
  [name |-> name, tag |-> tag, dec |-> dec, snap |-> snap, hi |-> hi]
NoOp == Op("none", "", "", FALSE, FALSE)

Snapshot(d, r, h) == [doc |-> d, range |-> r, hl |-> h, text |-> getText(d, r)]

Cur == St(doc, range, hl, detached, nextId)

RECURSIVE TextsOfLen(_)
TextsOfLen(n) ==
  IF n = 0 THEN {<<>>}
  ELSE {Append(t, c) : t \in TextsOfLen(n - 1), c \in Chars}
Texts == UNION {TextsOfLen(n) : n \in 1..MaxLen}

\* a sample sentence of two words
HelloWorld == <<"h", "e", "l", "l", "o", " ", "w", "o", "r", "l", "d">>
\* texts of the text node after the inline element
TailTexts == {<<"b">>, <<"a", " ", "b">>}

\* identities of the nodes of the initial document
T1 == 2
BId == 3
BText == 4
T2 == 5
FirstFresh == 6

\* one text node, or a text node, an inline element and a text node
Docs ==
  {<<Text(T1, t)>> : t \in Texts \cup {HelloWorld}}
    \cup {<<Text(T1, t), Elem(BId, "b", "", FALSE, <<Text(BText, <<"b">>)>>),
            Text(T2, u)>> : t \in Texts, u \in TailTexts}

\* the ranges the user can select in d: inside one text node, or from the
\* first text node to the last
Ranges(d) ==
  {[sc |-> d[i].id, so |-> s, ec |-> d[i].id, eo |-> e] :
     i \in {k \in 1..Len(d) : d[k].kind = "text"},
     s \in 0..Len(HelloWorld), e \in 0..Len(HelloWorld)}
  \cup {[sc |-> d[1].id, so |-> s, ec |-> d[Len(d)].id, eo |-> e] :
     s \in 0..Len(HelloWorld), e \in 0..Len(HelloWorld)}

ValidRange(d, r) ==
  /\ r.so <= Len(d[Pos(d, r.sc)].data)
  /\ r.eo <= Len(d[Pos(d, r.ec)].data)
  /\ ~BpAfter(d, r.sc, r.so, r.ec, r.eo)

NoRange == [sc |-> PId, so |-> 0, ec |-> PId, eo |-> 0]

Init ==
  /\ doc \in Docs
  /\ hostHasRange \in BOOLEAN
  /\ range \in IF hostHasRange
               THEN {r \in Ranges(doc) : ValidRange(doc, r)}
               ELSE {NoRange}
  /\ sel = FALSE
  /\ hl = None
  /\ detached = <<>>
  /\ nextId = FirstFresh
  /\ outcome = "returned"
  /\ log = <<>>
  /\ op1 = NoOp
  /\ op2 = NoOp
  /\ pre = Snapshot(doc, range, hl)
  /\ text2 = getText(doc, range)
  /\ lastHL = "none"
  /\ first = Snapshot(doc, range, hl)
  /\ ops = 0

\* a call ends in state res: the program's state and the record of the call
Call(op, res) ==
  /\ doc' = res.doc
  /\ range' = res.range
  /\ hl' = res.hl
  /\ detached' = res.detached
  /\ nextId' = res.nextId
  /\ outcome' = IF res.threw THEN "threw" ELSE "returned"
  /\ log' = res.log
  /\ op1' = op
  /\ op2' = op1
  /\ pre' = Snapshot(doc, range, hl)
  /\ text2' = pre.text
  /\ lastHL' = IF op.name \in {"highlight", "removeHighlight"} THEN op.name
               ELSE IF op.name = "process" /\ op.hi THEN "highlight"
               ELSE lastHL
  /\ ops' = ops + 1
  /\ UNCHANGED <<hostHasRange, first>>

\* process(options): returns the Selection, or throws and returns nothing
Process(options) ==
  /\ ops < MaxOps
  /\ ~sel
  /\ LET res == process(Cur, options, hostHasRange)
     IN /\ sel' = ~res.threw
        /\ Call(Op("process", "span", "yellow", options.snapToWord,
                   options.highlight), res)

\* service.Selection(range), called on the host's range
NewSelection ==
  /\ ops < MaxOps
  /\ ~sel
  /\ hostHasRange
  /\ sel' = TRUE
  /\ Call(Op("Selection", "", "", FALSE, FALSE), Selection(Cur))

SnapToWord ==
  /\ ops < MaxOps
  /\ sel
  /\ UNCHANGED sel
  /\ Call(Op("snapToWord", "", "", FALSE, FALSE), snapToWord(Cur))

Highlight(tag, dec) ==
  /\ ops < MaxOps
  /\ sel
  /\ UNCHANGED sel
  /\ Call(Op("highlight", tag, dec, FALSE, FALSE), highlight(Cur, tag, dec))

RemoveHighlight ==
  /\ ops < MaxOps
  /\ sel
  /\ UNCHANGED sel
  /\ Call(Op("removeHighlight", "", "", FALSE, FALSE), removeHighlight(Cur))

Options == [snapToWord : BOOLEAN, highlight : BOOLEAN]
\* the tag and decorator a caller passes to highlight
HighlightArgs ==
  {a \in Tags \X Decorators : (a[1] = "span") <=> (a[2] = "yellow")}

Next ==
  \/ \E o \in Options : Process(o)
  \/ NewSelection
  \/ SnapToWord
  \/ \E a \in HighlightArgs : Highlight(a[1], a[2])
  \/ RemoveHighlight

Spec == Init /\ [][Next]_vars

\* the same program with callers whose decorator may throw
NextThrow ==
  \/ Next
  \/ \E t \in Tags : Highlight(t, "throw")

SpecThrow == Init /\ [][NextThrow]_vars

\* ------------------------------------------------------------- properties
RECURSIVE CountMade(_), CountMadeSeq(_)
\* number of elements made by createElement in a subtree / a list of subtrees
CountMade(n) == (IF n.made THEN 1 ELSE 0) + CountMadeSeq(n.kids)
CountMadeSeq(s) ==
  IF s = <<>> THEN 0 ELSE CountMade(Head(s)) + CountMadeSeq(Tail(s))

\* the wrapper _highlighter refers to, when it is a child of the parent
Wrapper == doc[Pos(doc, hl)]
Attached == IsChild(doc, hl)

\* the range before the last call had both ends in one text node
PreSameText == pre.range.sc = pre.range.ec /\ pre.range.sc # PId
\* the range before the last call had both ends in text nodes
PreInText == pre.range.sc # PId /\ pre.range.ec # PId
\* the Selection was made over a range with both ends in one node
StartedSameNode == hostHasRange /\ first.range.sc = first.range.ec

PreStartText == pre.doc[Pos(pre.doc, pre.range.sc)].data
PreEndText == pre.doc[Pos(pre.doc, pre.range.ec)].data

HighlightLog(id, tag, dec) ==
  <<Ev("createElement", id, tag), Ev("decorator", id, dec),
    Ev("surroundContents", id, "")>>

StyleOf(dec) == IF dec = "yellow" THEN "background:yellow" ELSE ""

\* C1: highlight(tag, decorator) on an unhighlighted Selection whose range
\* lies in one text node creates exactly one element of type tag, calls the
\* decorator once on it before inserting it, and inserts it so that it
\* contains exactly the text the range spanned; getText() and the document's
\* text are what they were before the call.
C1_HighlightWrapsRange ==
  (op1.name = "highlight" /\ pre.hl = None /\ PreSameText)
    => /\ outcome = "returned"
       /\ log = HighlightLog(hl, op1.tag, op1.dec)
       /\ isHighlighted(hl)
       /\ Attached
       /\ ~IsChild(pre.doc, hl)
       /\ detached = <<>>
       /\ CountMadeSeq(doc) = CountMadeSeq(pre.doc) + 1
       /\ Wrapper.kind = "elem"
       /\ Wrapper.tag = op1.tag
       /\ Wrapper.style = StyleOf(op1.dec)
       /\ TextContent(Wrapper) = pre.text
       /\ getText(doc, range) = pre.text
       /\ TextOfSeq(doc) = TextOfSeq(pre.doc)

C1_Witness ==
  /\ op1.name = "highlight"
  /\ pre.hl = None
  /\ PreSameText
  /\ pre.range.so < pre.range.eo
  /\ pre.range.so > 0
  /\ isHighlighted(hl)
  /\ op1.dec = "yellow"

\* C2: over a range with both ends in one node, isHighlighted() is false on
\* a fresh Selection and, after any calls of highlight, removeHighlight and
\* snapToWord, true exactly when the last call among highlight and
\* removeHighlight was highlight.
C2_HighlightedIffLastWasHighlight ==
  /\ ~sel => ~isHighlighted(hl)
  /\ (sel /\ StartedSameNode)
       => (isHighlighted(hl) <=> lastHL = "highlight")

C2_Witness ==
  /\ sel
  /\ StartedSameNode
  /\ op2.name = "highlight"
  /\ op1.name = "removeHighlight"
  /\ ~isHighlighted(hl)

\* C3: at most one wrapper made by the Selection is in the document; after
\* two highlight calls in succession on a same-node range there is exactly
\* one wrapper, it holds no other wrapper, and the Selection is highlighted.
C3_OneWrapper ==
  /\ CountMadeSeq(doc) <= 1
  /\ (/\ StartedSameNode
      /\ op1.name = "highlight"
      /\ op2.name = "highlight" \/ (op2.name = "process" /\ op2.hi))
       => /\ CountMadeSeq(doc) = 1
          /\ isHighlighted(hl)
          /\ Attached
          /\ CountMadeSeq(Wrapper.kids) = 0

C3_Witness ==
  /\ StartedSameNode
  /\ op1.name = "highlight"
  /\ op2.name = "highlight"
  /\ CountMadeSeq(doc) = 1
  /\ pre.hl # None
  /\ hl # pre.hl

\* the parent's children with the wrapper w replaced by the wrapper's children
Unwrapped(d, w) ==
  SubSeq(d, 1, Pos(d, w) - 1) \o d[Pos(d, w)].kids
    \o SubSeq(d, Pos(d, w) + 1, Len(d))

\* C4: highlight followed by removeHighlight on a same-node range restores
\* getText() to the string it returned before the highlight; the wrapper is
\* gone, its children stand in order where it stood, and the document's
\* text is unchanged.
C4_HighlightRemoveRoundTrip ==
  (/\ StartedSameNode
   /\ op2.name = "highlight"
   /\ op1.name = "removeHighlight")
    => /\ outcome = "returned"
       /\ getText(doc, range) = text2
       /\ ~isHighlighted(hl)
       /\ CountMadeSeq(doc) = 0
       /\ IsChild(pre.doc, pre.hl)
       /\ doc = Unwrapped(pre.doc, pre.hl)
       /\ TextOfSeq(doc) = TextOfSeq(pre.doc)
       /\ TextOfSeq(doc) = TextOfSeq(first.doc)

C4_Witness ==
  /\ StartedSameNode
  /\ op2.name = "highlight"
  /\ op1.name = "removeHighlight"
  /\ text2 # <<>>
  /\ Len(doc) = 3
  /\ getText(doc, range) = text2

\* C5: when the range's start and end containers differ, highlight on an
\* unhighlighted Selection does nothing: no element is created, the
\* decorator is not called, nothing is thrown, the document and the range
\* are unchanged and isHighlighted() stays false.
C5_CrossNodeHighlightNoOp ==
  (op1.name = "highlight" /\ pre.hl = None /\ pre.range.sc # pre.range.ec)
    => /\ outcome = "returned"
       /\ log = <<>>
       /\ doc = pre.doc
       /\ range = pre.range
       /\ detached = <<>>
       /\ CountMadeSeq(doc) = 0
       /\ ~isHighlighted(hl)

C5_Witness ==
  /\ op1.name = "highlight"
  /\ pre.hl = None
  /\ pre.range.sc # pre.range.ec
  /\ ~isHighlighted(hl)
  /\ getText(doc, range) # <<>>

\* [a, b) is a space-delimited word of text that holds the offsets s and e
InWord(text, s, e, a, b) ==
  /\ 0 <= a /\ a <= s /\ s < b /\ s <= e /\ e <= b /\ b <= Len(text)
  /\ \A p \in a..(b - 1) : CharAt(text, p) # Space
  /\ a = 0 \/ CharAt(text, a - 1) = Space
  /\ b = Len(text) \/ CharAt(text, b) = Space

\* C6: when both offsets of the range lie inside one space-delimited word
\* of one text node, snapToWord() leaves the start at the word's first
\* character and the end one past its last character.
C6_SnapsToTheWord ==
  (op1.name = "snapToWord" /\ PreSameText)
    => \A a, b \in 0..Len(PreStartText) :
         InWord(PreStartText, pre.range.so, pre.range.eo, a, b)
           => range.so = a /\ range.eo = b

\* offset p of text does not fall between two non-space characters
NotMidWord(text, p) ==
  ~(/\ p > 0 /\ p < Len(text)
    /\ CharAt(text, p - 1) # Space
    /\ CharAt(text, p) # Space)

NoSpaceIn(text, from, to) == \A p \in from..(to - 1) : CharAt(text, p) # Space

C8_ProcessWithoutRangeThrows ==
  (op1.name = "process" /\ ~hostHasRange)
    => /\ outcome = "threw"
       /\ ~sel
       /\ log = <<Ev("getRangeAt", None, "")>>
       /\ doc = pre.doc
       /\ range = pre.range
       /\ detached = <<>>
       /\ ~isHighlighted(hl)

C8_Witness ==
  /\ op1.name = "process"
  /\ ~hostHasRange
  /\ op1.snap
  /\ op1.hi
  /\ outcome = "threw"

\* the text between the word boundaries around the range before the call
WordExpanded ==
  Slice(PreStartText, SnapStart(PreStartText, pre.range.so),
        SnapEnd(PreStartText, pre.range.eo, Len(PreStartText)))

\* C9: process(options) on the host's range snaps to words first (only with
\* options.snapToWord) and highlights after (only with options.highlight,
\* tag span, yellow background): with both flags on a same-node range the
\* Selection is highlighted and its wrapper holds the word-expanded text;
\* with neither the Selection is unhighlighted and range and document are
\* unchanged.
C9_ProcessSnapsThenHighlights ==
  (op1.name = "process" /\ hostHasRange)
    => LET wraps == op1.hi /\ pre.range.sc = pre.range.ec
           snapLog == IF op1.snap
                      THEN <<Ev("setStart", pre.range.sc, ""),
                             Ev("setEnd", pre.range.ec, "")>>
                      ELSE <<>>
           wrapLog == IF wraps THEN HighlightLog(hl, "span", "yellow") ELSE <<>>
       IN /\ outcome = "returned"
          /\ sel
          /\ log = snapLog \o wrapLog
          /\ isHighlighted(hl) <=> wraps
          /\ wraps => /\ Attached
                      /\ Wrapper.tag = "span"
                      /\ Wrapper.style = "background:yellow"
                      /\ TextContent(Wrapper)
                           = IF op1.snap THEN WordExpanded ELSE pre.text
                      /\ getText(doc, range) = TextContent(Wrapper)
          /\ ~wraps => doc = pre.doc
          /\ ~op1.snap /\ ~op1.hi => range = pre.range

C9_Witness ==
  /\ op1.name = "process"
  /\ hostHasRange
  /\ op1.snap
  /\ op1.hi
  /\ isHighlighted(hl)
  /\ Len(WordExpanded) > Len(pre.text)

\* C10: isHighlighted() is true only if the wrapper is attached to the
\* document, also after a highlight call that threw; a highlight call that
\* threw leaves the Selection unhighlighted.
C10_HighlightedMeansAttached ==
  /\ isHighlighted(hl) => Attached
  /\ (op1.name = "highlight" /\ outcome = "threw") => ~isHighlighted(hl)

=============================================================================
